---- MODULE Spec2Model ----
(***************************************************************************)
(* Model of litestar_granian/plugin.py: the GranianPlugin.on_app_init hook *)
(* and the helpers that fill logging defaults into LoggingConfig objects.  *)
(*                                                                         *)
(* A logging-config object is a record                                     *)
(*   kind       "None" (the slot holds None), "Other" (a BaseLoggingConfig *)
(*              that is not a LoggingConfig) or "LoggingConfig"            *)
(*   formatters, handlers, loggers   the three dictionaries (functions     *)
(*              whose DOMAIN is the set of keys present)                   *)
(*   applied    what each configure() call on the object observed, in call *)
(*              order (configure() itself belongs to litestar)             *)
(* A plugin of the registry is a record                                    *)
(*   is_structlog   isinstance(plugin, StructlogPlugin)                    *)
(*   has_config     hasattr(plugin, "_config")                             *)
(*   std        _config.structlog_logging_config.standard_lib_logging_config*)
(* Every object is a distinct Python object: the app's logging config and  *)
(* the nested configs of the plugins do not alias each other.              *)
(***************************************************************************)
EXTENDS Integers, Sequences, FiniteSets, TLC

VARIABLES STRUCTLOG_INSTALLED, app_config, last, calls

vars == <<STRUCTLOG_INSTALLED, app_config, last, calls>>

\* Bounds of the model.
MaxCalls == 2
MaxPlugins == 3

(***************************************************************************)
(* Dictionaries                                                            *)
(***************************************************************************)
EmptyMap == [k \in {} |-> k]

\* d[k] = v
Put(d, k, v) == [x \in (DOMAIN d) \cup {k} |-> IF x = k THEN v ELSE d[x]]

\* d.get(k, default)
Get(d, k, default) == IF k \in DOMAIN d THEN d[k] ELSE default

Fields(c) == [formatters |-> c.formatters, handlers |-> c.handlers, loggers |-> c.loggers]

(***************************************************************************)
(* Literals of the source                                                  *)
(***************************************************************************)
default_formatter ==
    [format |-> "%(asctime)s [%(levelname)s] %(name)s: %(message)s",
     datefmt |-> "%Y-%m-%d %H:%M:%S"]

stdlib_console_handler_copied == [class |-> "logging.StreamHandler", formatter |-> "standard"]

stdlib_console_handler == [class |-> "logging.StreamHandler", formatter |-> "generic"]

structlog_console_handler == [class |-> "logging.StreamHandler", formatter |-> "standard"]

default_logger_debug == [level |-> "DEBUG", handlers |-> <<"console">>, propagate |-> FALSE]

default_logger == [level |-> "INFO", handlers |-> <<"console">>, propagate |-> FALSE]

logger_names == <<"_granian", "granian.access">>

(***************************************************************************)
(* Capability checks and the adapter search                                *)
(***************************************************************************)
is_logging_config_not_none(config) == config.kind # "None"

is_logging_config(config) == config.kind # "None" /\ config.kind = "LoggingConfig"

RECURSIVE scan_plugins(_, _)
scan_plugins(plugins, i) ==
    IF i > Len(plugins) THEN 0
    ELSE IF plugins[i].is_structlog /\ plugins[i].has_config THEN i
    ELSE scan_plugins(plugins, i + 1)

RECURSIVE scan_plugins_isinstance_only(_, _)
scan_plugins_isinstance_only(plugins, i) ==
    IF i > Len(plugins) THEN 0
    ELSE IF plugins[i].is_structlog THEN i
    ELSE scan_plugins_isinstance_only(plugins, i + 1)

get_structlog_plugin_isinstance_only(app) == scan_plugins_isinstance_only(app.plugins, 1)

\* The index of the plugin returned, 0 for None.
get_structlog_plugin(app) == scan_plugins(app.plugins, 1)

(***************************************************************************)
(* The merge steps                                                         *)
(***************************************************************************)
\* logging_config.configure(): litestar applies the dictionaries as they are now.
configure(c) == [c EXCEPT !.applied = Append(@, Fields(c))]

ensure_generic_formatter_builtin(c) ==
    IF "generic" \notin DOMAIN c.formatters
    THEN [c EXCEPT !.formatters = Put(@, "generic", default_formatter)]
    ELSE c

ensure_generic_formatter(c) ==
    IF "generic" \notin DOMAIN c.formatters
    THEN [c EXCEPT !.formatters = Put(@, "generic", Get(c.formatters, "standard", default_formatter))]
    ELSE c

ensure_standard_formatter(c) ==
    IF "standard" \notin DOMAIN c.formatters
    THEN [c EXCEPT !.formatters = Put(@, "standard", default_formatter)]
    ELSE c

ensure_console_handler(c, handler) ==
    IF "console" \notin DOMAIN c.handlers
    THEN [c EXCEPT !.handlers = Put(@, "console", handler)]
    ELSE c

RECURSIVE loggers_loop_overwrite(_, _)
loggers_loop_overwrite(c, i) ==
    IF i > Len(logger_names) THEN c
    ELSE loggers_loop_overwrite([c EXCEPT !.loggers = Put(@, logger_names[i], default_logger)], i + 1)

ensure_loggers_overwrite(c) == loggers_loop_overwrite(c, 1)

RECURSIVE loggers_loop(_, _)
loggers_loop(c, i) ==
    IF i > Len(logger_names) THEN c
    ELSE IF logger_names[i] \notin DOMAIN c.loggers
    THEN loggers_loop([c EXCEPT !.loggers = Put(@, logger_names[i], default_logger)], i + 1)
    ELSE loggers_loop(c, i + 1)

\* for logger_name in ("_granian", "granian.access"): insert if absent
ensure_loggers(c) == loggers_loop(c, 1)

\* An elif chain in place of the independent ifs: one gap is filled per call.
configure_stdlib_logging_elif(c) ==
    configure(IF "generic" \notin DOMAIN c.formatters THEN ensure_generic_formatter(c)
              ELSE IF "console" \notin DOMAIN c.handlers
                   THEN ensure_console_handler(c, stdlib_console_handler)
              ELSE ensure_loggers(c))

\* configure() called before the loggers loop.
configure_stdlib_logging_early(c) ==
    ensure_loggers(configure(
        ensure_console_handler(ensure_generic_formatter(c), stdlib_console_handler)))

configure_stdlib_logging(c) ==
    configure(ensure_loggers(
        ensure_console_handler(ensure_generic_formatter(c), stdlib_console_handler)))

\* The plugin after the call and the exception raised ("none" when it returns).
configure_structlog(plugin) ==
    LET std_config == plugin.std IN
    IF std_config.kind = "None"
    THEN [plugin |-> plugin, raised |-> "AssertionError"]
    ELSE [plugin |-> [plugin EXCEPT !.std =
                         configure(ensure_loggers(ensure_standard_formatter(
                             ensure_console_handler(std_config, structlog_console_handler))))],
          raised |-> "none"]

(***************************************************************************)
(* GranianPlugin.on_app_init                                               *)
(***************************************************************************)
NoCall ==
    [op |-> "none", plain_merged |-> FALSE, searched |-> FALSE, found |-> 0,
     plugin_merged |-> 0, raised |-> "none", returned |-> FALSE, filled |-> {}]

\* The keys a call created: <<"plain" or "plugin", dictionary, key>>.
NewKeys(tag, c, d) ==
    {<<tag, "formatters", k>> : k \in (DOMAIN d.formatters) \ (DOMAIN c.formatters)}
        \cup {<<tag, "handlers", k>> : k \in (DOMAIN d.handlers) \ (DOMAIN c.handlers)}
        \cup {<<tag, "loggers", k>> : k \in (DOMAIN d.loggers) \ (DOMAIN c.loggers)}

Filled(app, app2) ==
    NewKeys("plain", app.logging_config, app2.logging_config)
        \cup UNION {NewKeys("plugin", app.plugins[i].std, app2.plugins[i].std) :
                        i \in 1..Len(app.plugins)}

\* The hook's outcome: the app config after it, and what it did.
HookOutcome(app, plain, searched, found, callPlugin) ==
    LET res == IF callPlugin THEN configure_structlog(app.plugins[found])
               ELSE [plugin |-> 0, raised |-> "none"]
        merged == callPlugin /\ res.raised = "none"
    IN [app |-> IF merged THEN [app EXCEPT !.plugins[found] = res.plugin] ELSE app,
        plain_merged |-> plain, searched |-> searched, found |-> found,
        plugin_merged |-> IF merged THEN found ELSE 0,
        raised |-> res.raised, returned |-> res.raised = "none"]

\* The nested config is not checked before _configure_structlog is called.
on_app_init_unchecked_nested(app, installed) ==
    LET plain == is_logging_config(app.logging_config)
        app1 == IF plain
                THEN [app EXCEPT !.logging_config = configure_stdlib_logging(@)]
                ELSE app
        found == IF installed THEN get_structlog_plugin(app1) ELSE 0
    IN HookOutcome(app1, plain, installed, found,
                   found # 0 /\ app1.plugins[found].std.kind \in {"None", "LoggingConfig"})

\* STRUCTLOG_INSTALLED is not consulted.
on_app_init_always_search(app, installed) ==
    LET plain == is_logging_config(app.logging_config)
        app1 == IF plain
                THEN [app EXCEPT !.logging_config = configure_stdlib_logging(@)]
                ELSE app
        found == get_structlog_plugin(app1)
    IN HookOutcome(app1, plain, TRUE, found,
                   found # 0 /\ is_logging_config(app1.plugins[found].std))

on_app_init(app, installed) ==
    LET plain == is_logging_config(app.logging_config)
        app1 == IF plain
                THEN [app EXCEPT !.logging_config = configure_stdlib_logging(@)]
                ELSE app
        found == IF installed THEN get_structlog_plugin(app1) ELSE 0
    IN HookOutcome(app1, plain, installed, found,
                   found # 0 /\ is_logging_config(app1.plugins[found].std))

(***************************************************************************)
(* Inputs                                                                  *)
(***************************************************************************)
Maps(keys, vals) == UNION {[s -> vals] : s \in SUBSET keys}

formatter_x == [format |-> "X", datefmt |-> "Y"]
formatter_z == [format |-> "%(message)s", datefmt |-> "%H:%M"]

handler_generic == [class |-> "logging.FileHandler", formatter |-> "generic"]
handler_standard == [class |-> "logging.StreamHandler", formatter |-> "standard"]
handler_custom == [class |-> "logging.StreamHandler", formatter |-> "custom"]

custom_logger == [level |-> "DEBUG", handlers |-> <<"queue_listener">>, propagate |-> TRUE]

LoggingConfig(f, h, l) ==
    [kind |-> "LoggingConfig", formatters |-> f, handlers |-> h, loggers |-> l, applied |-> <<>>]

NoneConfig == [kind |-> "None", formatters |-> EmptyMap, handlers |-> EmptyMap,
               loggers |-> EmptyMap, applied |-> <<>>]

OtherConfig == [kind |-> "Other", formatters |-> EmptyMap, handlers |-> EmptyMap,
                loggers |-> EmptyMap, applied |-> <<>>]

\* Every combination of the canonical keys present or absent.
AllConfigs ==
    {LoggingConfig(f, h, l) :
        f \in Maps({"generic", "standard"}, {formatter_x, formatter_z}),
        h \in Maps({"console"}, {handler_generic, handler_standard, handler_custom}),
        l \in Maps({"_granian", "granian.access", "litestar"}, {custom_logger})}

EmptyConfig == LoggingConfig(EmptyMap, EmptyMap, EmptyMap)

CustomConfig ==
    LoggingConfig([k \in {"generic", "standard"} |-> formatter_x],
                  [k \in {"console"} |-> handler_generic],
                  [k \in {"_granian", "granian.access"} |-> custom_logger])

SomeConfigs == {EmptyConfig, CustomConfig}

StructlogPlugin(std) == [is_structlog |-> TRUE, has_config |-> TRUE, std |-> std]

OtherPlugin == [is_structlog |-> FALSE, has_config |-> TRUE, std |-> NoneConfig]

BareStructlogPlugin == [is_structlog |-> TRUE, has_config |-> FALSE, std |-> NoneConfig]

Plugins ==
    {OtherPlugin, BareStructlogPlugin}
        \cup {StructlogPlugin(c) : c \in SomeConfigs \cup {NoneConfig, OtherConfig}}

Registries == UNION {[1..n -> Plugins] : n \in 0..MaxPlugins}

AppConfigs ==
    {[logging_config |-> c, plugins |-> r] :
        c \in SomeConfigs \cup {NoneConfig, OtherConfig}, r \in Registries}
    \cup {[logging_config |-> c, plugins |-> <<>>] : c \in AllConfigs}
    \cup {[logging_config |-> NoneConfig, plugins |-> <<StructlogPlugin(c)>>] : c \in AllConfigs}

(***************************************************************************)
(* Specification                                                           *)
(***************************************************************************)
Init ==
    /\ STRUCTLOG_INSTALLED \in BOOLEAN
    /\ app_config \in AppConfigs
    /\ last = NoCall
    /\ calls = 0

\* The host framework runs the hook.
OnAppInit ==
    /\ calls < MaxCalls
    /\ LET out == on_app_init(app_config, STRUCTLOG_INSTALLED) IN
        /\ app_config' = out.app
        /\ last' = [op |-> "on_app_init", plain_merged |-> out.plain_merged,
                    searched |-> out.searched, found |-> out.found,
                    plugin_merged |-> out.plugin_merged, raised |-> out.raised,
                    returned |-> out.returned, filled |-> Filled(app_config, out.app)]
    /\ calls' = calls + 1
    /\ UNCHANGED STRUCTLOG_INSTALLED

\* _configure_stdlib_logging called on its own, on a LoggingConfig.
CallConfigureStdlibLogging ==
    /\ calls < MaxCalls
    /\ app_config.logging_config.kind = "LoggingConfig"
    /\ app_config' = [app_config EXCEPT !.logging_config = configure_stdlib_logging(@)]
    /\ last' = [NoCall EXCEPT !.op = "_configure_stdlib_logging", !.plain_merged = TRUE,
                              !.returned = TRUE,
                              !.filled = Filled(app_config, app_config')]
    /\ calls' = calls + 1
    /\ UNCHANGED STRUCTLOG_INSTALLED

\* _configure_structlog called on its own, on a StructlogPlugin.
CallConfigureStructlog(i) ==
    /\ calls < MaxCalls
    /\ app_config.plugins[i].is_structlog
    /\ app_config.plugins[i].has_config
    /\ app_config.plugins[i].std.kind \in {"None", "LoggingConfig"}
    /\ LET res == configure_structlog(app_config.plugins[i]) IN
        /\ app_config' = IF res.raised = "none"
                         THEN [app_config EXCEPT !.plugins[i] = res.plugin]
                         ELSE app_config
        /\ last' = [NoCall EXCEPT !.op = "_configure_structlog",
                                  !.plugin_merged = IF res.raised = "none" THEN i ELSE 0,
                                  !.found = i,
                                  !.raised = res.raised,
                                  !.returned = (res.raised = "none"),
                                  !.filled = Filled(app_config, app_config')]
    /\ calls' = calls + 1
    /\ UNCHANGED STRUCTLOG_INSTALLED

\* _get_structlog_plugin called on its own.
CallGetStructlogPlugin ==
    /\ calls < MaxCalls
    /\ last' = [NoCall EXCEPT !.op = "_get_structlog_plugin", !.searched = TRUE,
                              !.found = get_structlog_plugin(app_config),
                              !.returned = TRUE]
    /\ calls' = calls + 1
    /\ UNCHANGED <<STRUCTLOG_INSTALLED, app_config>>

Next ==
    \/ OnAppInit
    \/ CallConfigureStdlibLogging
    \/ \E i \in 1..Len(app_config.plugins) : CallConfigureStructlog(i)
    \/ CallGetStructlogPlugin

Spec == Init /\ [][Next]_vars

(***************************************************************************)
(* Properties                                                              *)
(***************************************************************************)
\* Every key of old is a key of new with the same value.
Kept(old, new) == \A k \in DOMAIN old : k \in DOMAIN new /\ new[k] = old[k]

KeptConfig(c, d) ==
    /\ Kept(c.formatters, d.formatters)
    /\ Kept(c.handlers, d.handlers)
    /\ Kept(c.loggers, d.loggers)

\* The plugin an entry must satisfy to be returned by the adapter search.
Matches(plugin) == plugin.is_structlog /\ plugin.has_config

\* The first matching entry of the registry, 0 when there is none.
FirstMatching(plugins) ==
    IF \E i \in 1..Len(plugins) : Matches(plugins[i])
    THEN CHOOSE i \in 1..Len(plugins) :
            Matches(plugins[i]) /\ \A j \in 1..(i - 1) : ~Matches(plugins[j])
    ELSE 0

\* The adapter the hook would pick has no nested standard-library config.
AbsentNested(app) ==
    /\ FirstMatching(app.plugins) # 0
    /\ app.plugins[FirstMatching(app.plugins)].std.kind = "None"

CanonicalKeysPresent(c) ==
    /\ "console" \in DOMAIN c.handlers
    /\ {"_granian", "granian.access"} \subseteq DOMAIN c.loggers

\* The loggers the step from c to d inserted reference handlers that exist in d.
InsertedLoggersResolve(c, d) ==
    \A n \in (DOMAIN d.loggers) \ (DOMAIN c.loggers) :
        \A j \in 1..Len(d.loggers[n].handlers) : d.loggers[n].handlers[j] \in DOMAIN d.handlers

ConsoleFormatterResolves(d) ==
    "console" \in DOMAIN d.handlers => d.handlers["console"].formatter \in DOMAIN d.formatters

\* The formatter of the console handler of d exists exactly when the merge
\* inserted the handler, or the formatter existed in c, or it is the mode's key.
ConsoleFormatterExact(c, d, key) ==
    d.handlers["console"].formatter \in DOMAIN d.formatters
        <=> \/ "console" \notin DOMAIN c.handlers
            \/ c.handlers["console"].formatter \in DOMAIN c.formatters
            \/ c.handlers["console"].formatter = key

\* C1: a merge of a config that a merge already completed (configure() was
\* applied to it) changes none of its formatters, handlers and loggers, in
\* plain mode and in plugin mode.
C1_MergeIdempotent ==
    [][/\ (last'.plain_merged /\ Len(app_config.logging_config.applied) > 0)
            => Fields(app_config'.logging_config) = Fields(app_config.logging_config)
       /\ (last'.plugin_merged # 0
             /\ Len(app_config.plugins[last'.plugin_merged].std.applied) > 0)
            => Fields(app_config'.plugins[last'.plugin_merged].std)
                 = Fields(app_config.plugins[last'.plugin_merged].std)]_vars

\* Both modes merged a second time; the first merges had inserted loggers.
C1_Witness ==
    /\ Len(app_config.logging_config.applied) = 2
    /\ app_config.logging_config.applied[1] = app_config.logging_config.applied[2]
    /\ app_config.logging_config.applied[1].loggers["_granian"] = default_logger
    /\ \E i \in 1..Len(app_config.plugins) :
        /\ Len(app_config.plugins[i].std.applied) = 2
        /\ app_config.plugins[i].std.applied[1] = app_config.plugins[i].std.applied[2]
        /\ app_config.plugins[i].std.applied[1].loggers["granian.access"] = default_logger

\* C2: no step removes or changes an entry of formatters, handlers or loggers
\* of any config object: the app's logging config and every nested config.
C2_FillsGapsOnly ==
    [][/\ KeptConfig(app_config.logging_config, app_config'.logging_config)
       /\ Len(app_config'.plugins) = Len(app_config.plugins)
       /\ \A i \in 1..Len(app_config.plugins) :
            KeptConfig(app_config.plugins[i].std, app_config'.plugins[i].std)]_vars

\* A plugin-mode merge inserted a logger next to a custom formatter, handler and logger.
C2_Witness ==
    /\ last.plugin_merged # 0
    /\ last.filled = {<<"plugin", "loggers", "granian.access">>}
    /\ LET std == app_config.plugins[last.plugin_merged].std IN
        /\ std.formatters["standard"] = formatter_x
        /\ std.handlers["console"] = handler_custom
        /\ std.loggers["_granian"] = custom_logger
        /\ std.loggers["granian.access"] = default_logger

\* C3 as stated: after a merge the handlers of the inserted loggers exist and
\* the formatter of handlers["console"] exists, inserted or pre-existing.
C3_ReferentialIntegrity ==
    [][/\ last'.plain_merged
            => /\ InsertedLoggersResolve(app_config.logging_config, app_config'.logging_config)
               /\ ConsoleFormatterResolves(app_config'.logging_config)
       /\ last'.plugin_merged # 0
            => /\ InsertedLoggersResolve(app_config.plugins[last'.plugin_merged].std,
                                         app_config'.plugins[last'.plugin_merged].std)
               /\ ConsoleFormatterResolves(app_config'.plugins[last'.plugin_merged].std)]_vars

\* C3 amended: after a merge the handlers of the inserted loggers exist, and
\* the formatter of handlers["console"] exists exactly when the merge inserted
\* the handler, or the formatter existed before the merge, or it is the key
\* the mode fills ("generic" in plain mode, "standard" in plugin mode).
C3_IntegrityOfInserted ==
    [][/\ last'.plain_merged
            => /\ InsertedLoggersResolve(app_config.logging_config, app_config'.logging_config)
               /\ ConsoleFormatterExact(app_config.logging_config,
                                        app_config'.logging_config, "generic")
       /\ last'.plugin_merged # 0
            => /\ InsertedLoggersResolve(app_config.plugins[last'.plugin_merged].std,
                                         app_config'.plugins[last'.plugin_merged].std)
               /\ ConsoleFormatterExact(app_config.plugins[last'.plugin_merged].std,
                                        app_config'.plugins[last'.plugin_merged].std,
                                        "standard")]_vars

\* A plain merge inserted the console handler and both loggers, and all resolve.
C3_Witness ==
    /\ last.plain_merged
    /\ {<<"plain", "handlers", "console">>, <<"plain", "loggers", "_granian">>,
        <<"plain", "loggers", "granian.access">>} \subseteq last.filled
    /\ app_config.logging_config.handlers["console"].formatter
         \in DOMAIN app_config.logging_config.formatters
    /\ app_config.logging_config.loggers["_granian"].handlers[1]
         \in DOMAIN app_config.logging_config.handlers

\* C4 as stated: when the adapter the hook finds has no nested config, the
\* hook raises the assertion and mutates no configuration object.
C4_HookAbortsOnAbsentNested ==
    [][(last'.op = "on_app_init" /\ STRUCTLOG_INSTALLED /\ AbsentNested(app_config))
            => /\ last'.raised = "AssertionError"
               /\ app_config' = app_config]_vars

\* C4 amended: when the adapter the hook finds has no nested config, the hook
\* skips the plugin merge, raises nothing, returns, leaves the registry as it
\* is and mutates the app's logging config only by its plain merge; the
\* assertion is raised by a direct call of _configure_structlog on such an
\* adapter, and that call mutates nothing.
C4_HookSkipsAbsentNested ==
    [][/\ (last'.op = "on_app_init" /\ AbsentNested(app_config))
            => /\ last'.raised = "none"
               /\ last'.returned
               /\ last'.plugin_merged = 0
               /\ app_config'.plugins = app_config.plugins
               /\ (app_config.logging_config.kind # "LoggingConfig"
                     => app_config' = app_config)
       /\ (last'.op = "_configure_structlog"
             /\ app_config.plugins[last'.found].std.kind = "None")
            => /\ last'.raised = "AssertionError"
               /\ ~last'.returned
               /\ app_config' = app_config]_vars

\* The hook found an adapter without nested config, returned, and its plain
\* merge filled the app's logging config.
C4_Witness ==
    /\ last.op = "on_app_init"
    /\ STRUCTLOG_INSTALLED
    /\ last.found # 0
    /\ app_config.plugins[last.found].std.kind = "None"
    /\ last.raised = "none"
    /\ last.returned
    /\ <<"plain", "loggers", "_granian">> \in last.filled

\* C5: a hook run on an app whose logging config is None or not a
\* LoggingConfig leaves that object as it is (no entry, no configure() call),
\* does not run the plain merge, raises nothing and returns.
C5_CapabilityGating ==
    [][(last'.op = "on_app_init" /\ app_config.logging_config.kind # "LoggingConfig")
            => /\ app_config'.logging_config = app_config.logging_config
               /\ ~last'.plain_merged
               /\ \A t \in last'.filled : t[1] # "plain"
               /\ last'.raised = "none"
               /\ last'.returned]_vars

\* The hook ran on a non-mergeable logging config and still merged a plugin's config.
C5_Witness ==
    /\ last.op = "on_app_init"
    /\ app_config.logging_config = OtherConfig
    /\ last.returned
    /\ last.plugin_merged # 0
    /\ last.filled # {}

\* C6: a plain merge of a config without formatters, handlers and loggers
\* leaves exactly the "generic" default formatter, the "console" stream
\* handler on "generic", and the two loggers at INFO on ["console"] without
\* propagation.
C6_EmptyConfigMerge ==
    [][(last'.plain_merged
          /\ DOMAIN app_config.logging_config.formatters = {}
          /\ DOMAIN app_config.logging_config.handlers = {}
          /\ DOMAIN app_config.logging_config.loggers = {})
            => Fields(app_config'.logging_config) =
                 [formatters |->
                      [k \in {"generic"} |->
                          [format |-> "%(asctime)s [%(levelname)s] %(name)s: %(message)s",
                           datefmt |-> "%Y-%m-%d %H:%M:%S"]],
                  handlers |->
                      [k \in {"console"} |->
                          [class |-> "logging.StreamHandler", formatter |-> "generic"]],
                  loggers |->
                      [k \in {"_granian", "granian.access"} |->
                          [level |-> "INFO", handlers |-> <<"console">>,
                           propagate |-> FALSE]]]]_vars

\* A plain merge created all four canonical entries and nothing else exists.
C6_Witness ==
    /\ last.op = "_configure_stdlib_logging"
    /\ last.filled = {<<"plain", "formatters", "generic">>, <<"plain", "handlers", "console">>,
                      <<"plain", "loggers", "_granian">>, <<"plain", "loggers", "granian.access">>}
    /\ DOMAIN app_config.logging_config.formatters = {"generic"}
    /\ DOMAIN app_config.logging_config.handlers = {"console"}
    /\ DOMAIN app_config.logging_config.loggers = {"_granian", "granian.access"}

\* C7: a plain merge of a config without "generic" inserts under "generic"
\* the "standard" entry when there is one, which stays as it was, and the
\* built-in default when there is none.
C7_GenericReusesStandard ==
    [][(last'.plain_merged /\ "generic" \notin DOMAIN app_config.logging_config.formatters)
            => IF "standard" \in DOMAIN app_config.logging_config.formatters
               THEN /\ app_config'.logging_config.formatters["generic"]
                         = app_config.logging_config.formatters["standard"]
                    /\ app_config'.logging_config.formatters["standard"]
                         = app_config.logging_config.formatters["standard"]
               ELSE /\ app_config'.logging_config.formatters["generic"]
                         = [format |-> "%(asctime)s [%(levelname)s] %(name)s: %(message)s",
                            datefmt |-> "%Y-%m-%d %H:%M:%S"]
                    /\ "standard" \notin DOMAIN app_config'.logging_config.formatters]_vars

\* A plain merge inserted "generic" as a copy of a custom "standard".
C7_Witness ==
    /\ last.plain_merged
    /\ <<"plain", "formatters", "generic">> \in last.filled
    /\ "standard" \in DOMAIN app_config.logging_config.formatters
    /\ app_config.logging_config.formatters["standard"] = formatter_x
    /\ app_config.logging_config.formatters["generic"] = formatter_x

\* C8: without structlog installed the hook does not search the registry and
\* leaves every plugin as it is, and it runs the plain merge, with its
\* configure() call, exactly when the app's logging config is a LoggingConfig.
C8_NoSearchWithoutStructlog ==
    [][(last'.op = "on_app_init" /\ ~STRUCTLOG_INSTALLED)
            => /\ ~last'.searched
               /\ last'.found = 0
               /\ last'.plugin_merged = 0
               /\ app_config'.plugins = app_config.plugins
               /\ last'.plain_merged = (app_config.logging_config.kind = "LoggingConfig")
               /\ app_config.logging_config.kind = "LoggingConfig"
                    => /\ Len(app_config'.logging_config.applied)
                            = Len(app_config.logging_config.applied) + 1
                       /\ "generic" \in DOMAIN app_config'.logging_config.formatters
                       /\ CanonicalKeysPresent(app_config'.logging_config)]_vars

\* Without structlog the hook filled the app's config and left alone an
\* adapter whose nested config has gaps.
C8_Witness ==
    /\ ~STRUCTLOG_INSTALLED
    /\ last.op = "on_app_init"
    /\ last.plain_merged
    /\ <<"plain", "handlers", "console">> \in last.filled
    /\ \E i \in 1..Len(app_config.plugins) :
        /\ Matches(app_config.plugins[i])
        /\ app_config.plugins[i].std = EmptyConfig

\* C9: a search returns the first registry entry that is a StructlogPlugin
\* and has "_config", or None when no entry is both; the entries of the
\* registry stay the same objects, and the search on its own changes nothing.
C9_FirstMatchingAdapter ==
    [][last'.searched
            => /\ last'.found \in 0..Len(app_config.plugins)
               /\ last'.found # 0
                    => /\ Matches(app_config.plugins[last'.found])
                       /\ \A j \in 1..(last'.found - 1) : ~Matches(app_config.plugins[j])
               /\ last'.found = 0
                    => \A j \in 1..Len(app_config.plugins) : ~Matches(app_config.plugins[j])
               /\ Len(app_config'.plugins) = Len(app_config.plugins)
               /\ \A j \in 1..Len(app_config.plugins) :
                    /\ app_config'.plugins[j].is_structlog = app_config.plugins[j].is_structlog
                    /\ app_config'.plugins[j].has_config = app_config.plugins[j].has_config
               /\ last'.op = "_get_structlog_plugin" => app_config' = app_config]_vars

\* The search skipped a StructlogPlugin without "_config", returned the
\* second entry and ignored a third one that matches too.
C9_Witness ==
    /\ last.op = "_get_structlog_plugin"
    /\ last.found = 2
    /\ Len(app_config.plugins) = 3
    /\ app_config.plugins[1].is_structlog
    /\ ~app_config.plugins[1].has_config
    /\ Matches(app_config.plugins[3])

\* C10: a merge calls configure() once, and configure() observes the config
\* as the merge leaves it, with every canonical entry present, whether or not
\* the merge inserted anything.
C10_ConfigureOnceAtEnd ==
    [][/\ last'.plain_merged
            => /\ app_config'.logging_config.applied
                    = Append(app_config.logging_config.applied,
                             Fields(app_config'.logging_config))
               /\ "generic" \in DOMAIN app_config'.logging_config.formatters
               /\ CanonicalKeysPresent(app_config'.logging_config)
       /\ last'.plugin_merged # 0
            => /\ app_config'.plugins[last'.plugin_merged].std.applied
                    = Append(app_config.plugins[last'.plugin_merged].std.applied,
                             Fields(app_config'.plugins[last'.plugin_merged].std))
               /\ "standard" \in DOMAIN app_config'.plugins[last'.plugin_merged].std.formatters
               /\ CanonicalKeysPresent(app_config'.plugins[last'.plugin_merged].std)]_vars

\* A hook run merged both configs, inserted nothing in the app's config and
\* loggers in the plugin's, and each configure() saw the final dictionaries.
C10_Witness ==
    /\ last.op = "on_app_init"
    /\ last.plain_merged
    /\ last.plugin_merged # 0
    /\ last.filled # {}
    /\ \A t \in last.filled : t[1] = "plugin"
    /\ Len(app_config.logging_config.applied) = 1
    /\ app_config.logging_config.applied[1] = Fields(app_config.logging_config)
    /\ Len(app_config.plugins[last.plugin_merged].std.applied) = 1
    /\ app_config.plugins[last.plugin_merged].std.applied[1]
         = Fields(app_config.plugins[last.plugin_merged].std)

====
